---- MODULE Spec2Model ----
(***************************************************************************)
(* pf-status-relay: the PF entity (pkg/lacp/pf.go), its monitoring         *)
(* goroutine, and the registry / dispatch loop (pkg/lacp/interface.go).    *)
(*                                                                         *)
(* Go objects that are compared by identity (the context derived by        *)
(* context.WithCancel, the channel made by make(chan struct{}), the        *)
(* goroutine) are named by an identifier: one StartMonitoring call that    *)
(* passes its guard allocates one identifier that names the goroutine, its *)
(* derived context and its channel.                                        *)
(***************************************************************************)
EXTENDS Integers, Sequences, FiniteSets, TLC

\* ------------------------------------------------------------- bounds
\* capacity of the notification queue (100 in main, scaled down)
QueueCap == 2
\* largest number of VFs a link reports
MaxVFs == 2

\* ------------------------------------------------------------- domains
\* the indexes of the links the configuration names
Indexes == {1, 2}
Names == {"ens1", "ens1_renamed"}
OperUp == "up"
OperStates == {OperUp, "down", "unknown"}
NoMaster == 0
MasterIndexes == {NoMaster, 10}
BOND_MODE_802_3AD == "802.3ad"
VF_LINK_STATE_AUTO == "auto"
VF_LINK_STATE_ENABLE == "enable"
VF_LINK_STATE_DISABLE == "disable"
VfStates == {VF_LINK_STATE_AUTO, VF_LINK_STATE_ENABLE, VF_LINK_STATE_DISABLE}
Nil == 0

\* netlink.LinkByIndex(p.Index): an error, or the link's attributes
NotFound == [found |-> FALSE]
LinkAttrs(N) == [found : {TRUE}, Name : N, OperState : OperStates,
                 MasterIndex : MasterIndexes]
LinkAnswers(N) == {NotFound} \cup LinkAttrs(N)

\* netlink.LinkByIndex(p.MasterIndex): an error, a *netlink.Bond with its
\* mode, or a link of another type (a bridge, a team device, ...)
NoLookup == [kind |-> "none"]
MasterAnswers == {[kind |-> "error"],
                  [kind |-> "bond", Mode |-> BOND_MODE_802_3AD],
                  [kind |-> "bond", Mode |-> "active-backup"],
                  [kind |-> "bridge"]}

\* netlink.LinkByIndex(p.Index) in a poll tick: the Slave attribute is nil,
\* of another type than *netlink.BondSlave, or a *netlink.BondSlave
NoSlave == [kind |-> "nil"]
SlaveAnswers == {NoSlave, [kind |-> "other"]} \cup
                [kind : {"bond"}, protocolUp : BOOLEAN, fastRate : BOOLEAN]

\* the lists of VF link states a link can report: the VF at position k has
\* ID k
VfLists == UNION {[1 .. n -> VfStates] : n \in 0 .. MaxVFs}

VARIABLES
    pfs,        \* Interfaces.PFs: index -> PF
    tasks,      \* the live monitoring goroutines
    queue,      \* the notification channel's buffer
    rootDone,   \* the root context of main is cancelled
    pc,         \* where the code that calls the PFs' methods is
    todo,       \* PFs a "for _, p := range i.PFs" loop has still to visit
    waitOn,     \* the PF whose endChan that code is receiving from
    names,      \* kernel side: the names a link is seen with
    vfs,        \* kernel side: link index -> list of VF link states
    ev          \* history: what the last step did

vars == <<pfs, tasks, queue, rootDone, pc, todo, waitOn, names, vfs, ev>>

\* ------------------------------------------------------------- PF.Inspect
InspectOK == "ok"
ErrLinkDown == "link is not up"
ErrNoMaster == "no master interface associated"
ErrFetchMaster == "failed to fetch master interface"
ErrBondMode == "bond does not have mode 802.3ad"
Panic == "panic"
InspectErrors == {ErrLinkDown, ErrNoMaster, ErrFetchMaster, ErrBondMode}

\* whether Inspect reaches the lookup of the master
InspectLooksUp(p) == p.OperState = OperUp /\ p.MasterIndex # NoMaster

\* m is the answer of netlink.LinkByIndex(p.MasterIndex); the unchecked type
\* assertion bond.(*netlink.Bond) panics on a link that is not a bond
Inspect(p, m) ==
    IF p.OperState # OperUp THEN ErrLinkDown
    ELSE IF p.MasterIndex = NoMaster THEN ErrNoMaster
    ELSE IF m.kind = "error" THEN ErrFetchMaster
    ELSE IF m.kind # "bond" THEN Panic
    ELSE IF m.Mode # BOND_MODE_802_3AD THEN ErrBondMode
    ELSE InspectOK

\* ------------------------------------------------------------- PF.Update
Update_CompareAll(p, link) ==
    IF ~link.found THEN [pf |-> p, updated |-> FALSE, err |-> TRUE]
    ELSE IF /\ link.OperState = p.OperState
            /\ link.MasterIndex = p.MasterIndex
            /\ link.Name = p.Name
         THEN [pf |-> p, updated |-> FALSE, err |-> FALSE]
    ELSE [pf |-> [p EXCEPT !.Name = link.Name,
                           !.OperState = link.OperState,
                           !.MasterIndex = link.MasterIndex],
          updated |-> TRUE, err |-> FALSE]

Update_WriteFirst(p, link) ==
    IF ~link.found THEN [pf |-> p, updated |-> FALSE, err |-> TRUE]
    ELSE [pf |-> [p EXCEPT !.Name = link.Name,
                           !.OperState = link.OperState,
                           !.MasterIndex = link.MasterIndex],
          updated |-> (link.OperState # p.OperState), err |-> FALSE]

Update_ClearOnError(p, link) ==
    IF ~link.found
    THEN [pf |-> [p EXCEPT !.OperState = "unknown"], updated |-> FALSE, err |-> TRUE]
    ELSE IF link.OperState = p.OperState
         THEN [pf |-> p, updated |-> FALSE, err |-> FALSE]
    ELSE [pf |-> [p EXCEPT !.Name = link.Name,
                           !.OperState = link.OperState,
                           !.MasterIndex = link.MasterIndex],
          updated |-> TRUE, err |-> FALSE]

\* link is the answer of netlink.LinkByIndex(p.Index); the link found by
\* index p.Index has that index, so "p.Index = link.Attrs().Index" keeps it
Update(p, link) ==
    IF ~link.found THEN [pf |-> p, updated |-> FALSE, err |-> TRUE]
    ELSE IF link.OperState = p.OperState
         THEN [pf |-> p, updated |-> FALSE, err |-> FALSE]
    ELSE [pf |-> [p EXCEPT !.Name = link.Name,
                           !.OperState = link.OperState,
                           !.MasterIndex = link.MasterIndex],
          updated |-> TRUE, err |-> FALSE]

\* ------------------------------------------------------------- goroutines
\* identifiers in use: live goroutines and what the PFs' fields refer to
UsedIds(P, T) ==
    {t.id : t \in T} \cup {P[i].cancel : i \in DOMAIN P}
                     \cup {P[i].endChan : i \in DOMAIN P}

\* a fresh context / channel / goroutine: the least identifier not in use
FreshId(P, T) ==
    CHOOSE n \in 1 .. (Cardinality(UsedIds(P, T)) + 1) :
        /\ n \notin UsedIds(P, T)
        /\ \A k \in 1 .. (n - 1) : k \in UsedIds(P, T)

\* the goroutine of StartMonitoring as it is spawned: its locals lacpUp,
\* noVFLog, firstDownLog; link, snap, up and i are the tick's locals (the
\* index of link, vfs, the value of isProtocolUp, the position of the range
\* loop); ch is the channel the deferred send blocks on; reqs, run and lacp
\* are history: the LinkSetVfState calls of the tick so far, where the
\* goroutine's ticks stand in a run of empty VF lists (see RunAfter), and
\* which of "lacp is up" and "lacp is down" the goroutine logged last and
\* whether it has logged "lacp is down" at all (see LacpAfter)
NewTask(id, idx) ==
    [id |-> id, pf |-> idx, st |-> "select", cancelled |-> FALSE,
     lacpUp |-> FALSE, noVFLog |-> TRUE, firstDownLog |-> TRUE,
     link |-> Nil, snap |-> <<>>, up |-> FALSE, i |-> 0, reqs |-> <<>>,
     ch |-> Nil, run |-> "none", lacp |-> [last |-> "none", down |-> FALSE]]

\* stop.Done() of the goroutine's derived context: its own cancel was
\* called, or the parent (the root context) is cancelled
CtxDone(t) == t.cancelled \/ rootDone

TasksOf(T, idx) == {t \in T : t.pf = idx}

\* ------------------------------------------------------------- Start / Stop
StartMonitoring_NoGuard(P, T, idx) ==
    LET id == FreshId(P, T) IN
    [pfs |-> [P EXCEPT ![idx].Monitoring = TRUE,
                       ![idx].cancel = id,
                       ![idx].endChan = id],
     tasks |-> T \cup {NewTask(id, idx)},
     call |-> "start-spawn"]

StartMonitoring_NoFlag(P, T, idx) ==
    IF P[idx].Monitoring
    THEN [pfs |-> P, tasks |-> T, call |-> "start-noop"]
    ELSE LET id == FreshId(P, T) IN
         [pfs |-> [P EXCEPT ![idx].cancel = id, ![idx].endChan = id],
          tasks |-> T \cup {NewTask(id, idx)},
          call |-> "start-spawn"]

\* PF.StartMonitoring(ctx), ctx the root context
StartMonitoring(P, T, idx) ==
    IF P[idx].Monitoring
    THEN [pfs |-> P, tasks |-> T, call |-> "start-noop"]
    ELSE LET id == FreshId(P, T) IN
         [pfs |-> [P EXCEPT ![idx].Monitoring = TRUE,
                            ![idx].cancel = id,
                            ![idx].endChan = id],
          tasks |-> T \cup {NewTask(id, idx)},
          call |-> "start-spawn"]

\* p.cancel(): cancels the derived context it belongs to
Cancel(T, id) ==
    {IF t.id = id THEN [t EXCEPT !.cancelled = TRUE] ELSE t : t \in T}

StopMonitoringCall_NoGuard(P, T, idx) ==
    [tasks |-> Cancel(T, P[idx].cancel), call |-> "stop-wait"]

\* PF.StopMonitoring up to its receive from p.endChan
StopMonitoringCall(P, T, idx) ==
    IF ~P[idx].Monitoring
    THEN [tasks |-> T, call |-> "stop-noop"]
    ELSE [tasks |-> Cancel(T, P[idx].cancel), call |-> "stop-wait"]

\* the goroutines whose deferred send can meet a receive from p.endChan
Senders(P, T, idx) == {t \in T : t.st = "send" /\ t.ch = P[idx].endChan}

StopMonitoringJoin_NoWait(idx) ==
    /\ waitOn = idx
    /\ pfs' = [pfs EXCEPT ![idx].Monitoring = FALSE]
    /\ tasks' = tasks
    /\ waitOn' = Nil

\* PF.StopMonitoring from "<-p.endChan" on: the receive takes the value of
\* one sender, whose deferred function and goroutine then end
StopMonitoringJoin(idx) ==
    /\ waitOn = idx
    /\ \E t \in Senders(pfs, tasks, idx) :
          tasks' = tasks \ {t}
    /\ pfs' = [pfs EXCEPT ![idx].Monitoring = FALSE]
    /\ waitOn' = Nil

\* ------------------------------------------------------------- the poll tick
\* the LACP protocol state and rate of a bond slave
isProtocolUp(s) == s.protocolUp
IsFastRate(s) == s.fastRate

\* the range loops over vfs: with the protocol up, a VF in state disable is
\* set to auto; with the protocol down, a VF in state auto is set to disable
WriteFrom(up) == IF up THEN VF_LINK_STATE_DISABLE ELSE VF_LINK_STATE_AUTO
WriteTo(up) == IF up THEN VF_LINK_STATE_AUTO ELSE VF_LINK_STATE_DISABLE

Least(S) == CHOOSE j \in S : \A k \in S : j <= k

NextWrite_NotTarget(snap, up, from) ==
    LET S == {j \in from .. Len(snap) : snap[j] # WriteTo(up)}
    IN  IF S = {} THEN 0 ELSE Least(S)

NextWrite_BreakAfterFirst(snap, up, from) ==
    LET S == {j \in from .. Len(snap) : snap[j] = WriteFrom(up)}
    IN  IF S = {} \/ from > 1 THEN 0 ELSE Least(S)

\* the first position from `from` on at which the range loop calls
\* LinkSetVfState, 0 when it calls it no more
NextWrite(snap, up, from) ==
    LET S == {j \in from .. Len(snap) : snap[j] = WriteFrom(up)}
    IN  IF S = {} THEN 0 ELSE Least(S)

\* the goroutine between two ticks: the tick's locals are gone
EndTick(t) ==
    [t EXCEPT !.st = "select", !.link = Nil, !.snap = <<>>, !.up = FALSE,
              !.i = 0, !.reqs = <<>>]

\* the goroutine as it enters one of the two range loops
EnterLoop(t, link, up) ==
    LET j == NextWrite(link.Vfs, up, 1)
    IN  IF j = 0 THEN EndTick(t)
        ELSE [t EXCEPT !.st = "loop", !.link = link.Index, !.snap = link.Vfs,
                       !.up = up, !.i = j, !.reqs = <<>>]

Tick_NoDebounce(t, link) ==
    IF ~link.found
    THEN [task |-> t, outcome |-> "readfail", logs |-> {"failed to fetch interface"}]
    ELSE IF Len(link.Vfs) = 0
    THEN [task |-> t, outcome |-> "novfs", logs |-> {"interface has no VFs"}]
    ELSE LET t1 == [t EXCEPT !.noVFLog = TRUE] IN
    IF link.Slave.kind = "nil"
    THEN [task |-> t1, outcome |-> "noslave",
          logs |-> {"interface has no slave attribute"}]
    ELSE IF link.Slave.kind # "bond"
    THEN [task |-> t1, outcome |-> "badslave",
          logs |-> {"interface does not have BondSlave type on Slave attribute"}]
    ELSE IF isProtocolUp(link.Slave)
    THEN [task |-> EnterLoop([t1 EXCEPT !.lacpUp = TRUE], link, TRUE),
          outcome |-> "up",
          logs |-> IF ~t.lacpUp
                   THEN {"lacp is up"} \cup
                        (IF ~IsFastRate(link.Slave)
                         THEN {"partner is using slow lacp rate"} ELSE {})
                   ELSE {}]
    ELSE [task |-> EnterLoop(IF t.lacpUp \/ t.firstDownLog
                             THEN [t1 EXCEPT !.lacpUp = FALSE,
                                             !.firstDownLog = FALSE]
                             ELSE t1, link, FALSE),
          outcome |-> "down",
          logs |-> IF t.lacpUp \/ t.firstDownLog THEN {"lacp is down"} ELSE {}]

Tick_ResetOnSkip(t, link) ==
    IF ~link.found
    THEN [task |-> t, outcome |-> "readfail", logs |-> {"failed to fetch interface"}]
    ELSE IF Len(link.Vfs) = 0
    THEN [task |-> [t EXCEPT !.noVFLog = FALSE], outcome |-> "novfs",
          logs |-> IF t.noVFLog THEN {"interface has no VFs"} ELSE {}]
    ELSE LET t1 == [t EXCEPT !.noVFLog = TRUE] IN
    IF link.Slave.kind = "nil"
    THEN [task |-> [t1 EXCEPT !.lacpUp = FALSE], outcome |-> "noslave",
          logs |-> {"interface has no slave attribute"}]
    ELSE IF link.Slave.kind # "bond"
    THEN [task |-> [t1 EXCEPT !.lacpUp = FALSE], outcome |-> "badslave",
          logs |-> {"interface does not have BondSlave type on Slave attribute"}]
    ELSE IF isProtocolUp(link.Slave)
    THEN [task |-> EnterLoop([t1 EXCEPT !.lacpUp = TRUE], link, TRUE),
          outcome |-> "up",
          logs |-> IF ~t.lacpUp
                   THEN {"lacp is up"} \cup
                        (IF ~IsFastRate(link.Slave)
                         THEN {"partner is using slow lacp rate"} ELSE {})
                   ELSE {}]
    ELSE [task |-> EnterLoop(IF t.lacpUp \/ t.firstDownLog
                             THEN [t1 EXCEPT !.lacpUp = FALSE,
                                             !.firstDownLog = FALSE]
                             ELSE t1, link, FALSE),
          outcome |-> "down",
          logs |-> IF t.lacpUp \/ t.firstDownLog THEN {"lacp is down"} ELSE {}]

Tick_DownEveryTick(t, link) ==
    IF ~link.found
    THEN [task |-> t, outcome |-> "readfail", logs |-> {"failed to fetch interface"}]
    ELSE IF Len(link.Vfs) = 0
    THEN [task |-> [t EXCEPT !.noVFLog = FALSE], outcome |-> "novfs",
          logs |-> IF t.noVFLog THEN {"interface has no VFs"} ELSE {}]
    ELSE LET t1 == [t EXCEPT !.noVFLog = TRUE] IN
    IF link.Slave.kind = "nil"
    THEN [task |-> t1, outcome |-> "noslave",
          logs |-> {"interface has no slave attribute"}]
    ELSE IF link.Slave.kind # "bond"
    THEN [task |-> t1, outcome |-> "badslave",
          logs |-> {"interface does not have BondSlave type on Slave attribute"}]
    ELSE IF isProtocolUp(link.Slave)
    THEN [task |-> EnterLoop([t1 EXCEPT !.lacpUp = TRUE], link, TRUE),
          outcome |-> "up",
          logs |-> IF ~t.lacpUp
                   THEN {"lacp is up"} \cup
                        (IF ~IsFastRate(link.Slave)
                         THEN {"partner is using slow lacp rate"} ELSE {})
                   ELSE {}]
    ELSE [task |-> EnterLoop([t1 EXCEPT !.lacpUp = FALSE,
                                        !.firstDownLog = FALSE], link, FALSE),
          outcome |-> "down",
          logs |-> {"lacp is down"}]

\* one tick up to its first LinkSetVfState call: link is the answer of
\* netlink.LinkByIndex(p.Index); gives the goroutine after it, what the tick
\* found (outcome) and the messages it logged
Tick(t, link) ==
    IF ~link.found
    THEN [task |-> t, outcome |-> "readfail", logs |-> {"failed to fetch interface"}]
    ELSE IF Len(link.Vfs) = 0
    THEN [task |-> [t EXCEPT !.noVFLog = FALSE], outcome |-> "novfs",
          logs |-> IF t.noVFLog THEN {"interface has no VFs"} ELSE {}]
    ELSE LET t1 == [t EXCEPT !.noVFLog = TRUE] IN
    IF link.Slave.kind = "nil"
    THEN [task |-> t1, outcome |-> "noslave",
          logs |-> {"interface has no slave attribute"}]
    ELSE IF link.Slave.kind # "bond"
    THEN [task |-> t1, outcome |-> "badslave",
          logs |-> {"interface does not have BondSlave type on Slave attribute"}]
    ELSE IF isProtocolUp(link.Slave)
    THEN [task |-> EnterLoop([t1 EXCEPT !.lacpUp = TRUE], link, TRUE),
          outcome |-> "up",
          logs |-> IF ~t.lacpUp
                   THEN {"lacp is up"} \cup
                        (IF ~IsFastRate(link.Slave)
                         THEN {"partner is using slow lacp rate"} ELSE {})
                   ELSE {}]
    ELSE [task |-> EnterLoop(IF t.lacpUp \/ t.firstDownLog
                             THEN [t1 EXCEPT !.lacpUp = FALSE,
                                             !.firstDownLog = FALSE]
                             ELSE t1, link, FALSE),
          outcome |-> "down",
          logs |-> IF t.lacpUp \/ t.firstDownLog THEN {"lacp is down"} ELSE {}]

\* history of a goroutine's ticks: "empty" when its last tick read an empty
\* VF list, "broken" when ticks that failed to read have followed such a
\* tick, "none" at the start and once a tick has read a list with VFs
RunAfter(run, outcome) ==
    IF outcome = "novfs" THEN "empty"
    ELSE IF outcome = "readfail" THEN (IF run = "none" THEN "none" ELSE "broken")
    ELSE "none"

\* history of a goroutine's LACP messages after a tick that logged `logs`
LacpAfter(h, logs) ==
    [last |-> IF "lacp is up" \in logs THEN "up"
              ELSE IF "lacp is down" \in logs THEN "down" ELSE h.last,
     down |-> h.down \/ "lacp is down" \in logs]

\* what netlink.LinkByIndex(index) can answer in a tick; the Slave attribute
\* is looked at only when the link has VFs
TickReads(index) ==
    {[found |-> FALSE]} \cup
    {[found |-> TRUE, Index |-> index, Vfs |-> vfs[index], Slave |-> s] :
        s \in (IF vfs[index] = <<>> THEN {NoSlave} ELSE SlaveAnswers)}

\* the process is running: a panic ends every goroutine
Alive == pc # "panic"

\* "case <-time.Tick(...)": the timer's channel is ready and the select takes
\* it (when stop.Done() is ready too, the select picks either)
TickBegin(t) ==
    /\ Alive
    /\ t \in tasks /\ t.st = "select"
    /\ \E link \in TickReads(pfs[t.pf].Index) :
         LET r == Tick(t, link) IN
         /\ tasks' = (tasks \ {t}) \cup
                     {[r.task EXCEPT !.run = RunAfter(t.run, r.outcome),
                                     !.lacp = LacpAfter(t.lacp, r.logs)]}
         /\ ev' = [op |-> "tick", id |-> t.id, pf |-> t.pf, read |-> link,
                   outcome |-> r.outcome, logs |-> r.logs,
                   done |-> (r.task.st = "select"), reqs |-> <<>>,
                   run |-> t.run]
    /\ UNCHANGED <<pfs, queue, rootDone, pc, todo, waitOn, names, vfs>>

WriteVf_StopOnError(t) ==
    /\ Alive
    /\ t \in tasks /\ t.st = "loop"
    /\ \E ok \in (IF t.i <= Len(vfs[t.link]) THEN BOOLEAN ELSE {FALSE}) :
         LET j == IF ok THEN NextWrite(t.snap, t.up, t.i + 1) ELSE 0
             rq == Append(t.reqs, [vf |-> t.i, state |-> WriteTo(t.up), ok |-> ok])
         IN
         /\ vfs' = (IF ok THEN [vfs EXCEPT ![t.link][t.i] = WriteTo(t.up)] ELSE vfs)
         /\ tasks' = (tasks \ {t}) \cup
                     {IF j = 0 THEN EndTick(t) ELSE [t EXCEPT !.i = j, !.reqs = rq]}
         /\ ev' = [op |-> "write", id |-> t.id, pf |-> t.pf, link |-> t.link,
                   vf |-> t.i, state |-> WriteTo(t.up), ok |-> ok,
                   read |-> t.snap[t.i], up |-> t.up, snap |-> t.snap,
                   done |-> (j = 0), reqs |-> rq]
    /\ UNCHANGED <<pfs, queue, rootDone, pc, todo, waitOn, names>>

\* one netlink.LinkSetVfState(link, vf.ID, state) of a range loop, which the
\* kernel applies (ok) or refuses, and the loop's advance to its next call
WriteVf(t) ==
    /\ Alive
    /\ t \in tasks /\ t.st = "loop"
    /\ \E ok \in (IF t.i <= Len(vfs[t.link]) THEN BOOLEAN ELSE {FALSE}) :
         LET j == NextWrite(t.snap, t.up, t.i + 1)
             rq == Append(t.reqs, [vf |-> t.i, state |-> WriteTo(t.up), ok |-> ok])
         IN
         /\ vfs' = (IF ok THEN [vfs EXCEPT ![t.link][t.i] = WriteTo(t.up)] ELSE vfs)
         /\ tasks' = (tasks \ {t}) \cup
                     {IF j = 0 THEN EndTick(t) ELSE [t EXCEPT !.i = j, !.reqs = rq]}
         /\ ev' = [op |-> "write", id |-> t.id, pf |-> t.pf, link |-> t.link,
                   vf |-> t.i, state |-> WriteTo(t.up), ok |-> ok,
                   read |-> t.snap[t.i], up |-> t.up, snap |-> t.snap,
                   done |-> (j = 0), reqs |-> rq]
    /\ UNCHANGED <<pfs, queue, rootDone, pc, todo, waitOn, names>>

TaskExit_Uncancelled(t) ==
    /\ Alive
    /\ t \in tasks /\ t.st = "select"
    /\ tasks' = (tasks \ {t}) \cup
                {[t EXCEPT !.st = "send", !.ch = pfs[t.pf].endChan]}
    /\ ev' = [op |-> "exit", id |-> t.id, pf |-> t.pf]
    /\ UNCHANGED <<pfs, queue, rootDone, pc, todo, waitOn, names, vfs>>

\* "case <-stop.Done()": the goroutine returns and its deferred function
\* runs "p.endChan <- struct{}{}", which reads p.endChan then and blocks
\* until a receiver takes the value
TaskExit(t) ==
    /\ Alive
    /\ t \in tasks /\ t.st = "select"
    /\ CtxDone(t)
    /\ tasks' = (tasks \ {t}) \cup
                {[t EXCEPT !.st = "send", !.ch = pfs[t.pf].endChan]}
    /\ ev' = [op |-> "exit", id |-> t.id, pf |-> t.pf]
    /\ UNCHANGED <<pfs, queue, rootDone, pc, todo, waitOn, names, vfs>>

\* kernel side: VFs are created or removed, or their link state is set by
\* someone else
VfChange(index, l) ==
    /\ Alive
    /\ vfs[index] # l
    /\ vfs' = [vfs EXCEPT ![index] = l]
    /\ ev' = [op |-> "vfchange", link |-> index]
    /\ UNCHANGED <<pfs, tasks, queue, rootDone, pc, todo, waitOn, names>>

\* ------------------------------------------------------------- startup
\* Interfaces.Start, one iteration of "for _, p := range i.PFs":
\* Inspect, then StartMonitoring on success
Startup(idx) ==
    /\ pc = "startup" /\ idx \in todo
    /\ \E m \in (IF InspectLooksUp(pfs[idx]) THEN MasterAnswers ELSE {NoLookup}) :
         LET r == Inspect(pfs[idx], m)
             s == StartMonitoring(pfs, tasks, idx)
         IN  /\ ev' = [op |-> "startup", pf |-> idx, inspect |-> r, m |-> m,
                       call |-> IF r = InspectOK THEN s.call ELSE "-"]
             /\ IF r = Panic
                THEN /\ pc' = "panic"
                     /\ UNCHANGED <<pfs, tasks, todo>>
                ELSE /\ pfs' = (IF r = InspectOK THEN s.pfs ELSE pfs)
                     /\ tasks' = (IF r = InspectOK THEN s.tasks ELSE tasks)
                     /\ todo' = todo \ {idx}
                     /\ pc' = (IF todo' = {} THEN "select" ELSE "startup")
    /\ UNCHANGED <<queue, rootDone, waitOn, names, vfs>>

\* ------------------------------------------------------------- dispatch
\* the Link Event Source puts an index into the queue; it blocks while the
\* buffer is full. main subscribes with pfs.Indexes(), after Start returned
Produce(index) ==
    /\ pc \in {"select", "stop", "shutdown", "returned"}
    /\ Len(queue) < QueueCap
    /\ queue' = Append(queue, index)
    /\ ev' = [op |-> "produce", index |-> index]
    /\ UNCHANGED <<pfs, tasks, rootDone, pc, todo, waitOn, names, vfs>>

\* "case index := <-queue": Update, and on a change Inspect followed by
\* StartMonitoring or StopMonitoring (up to its receive from p.endChan)
Notify ==
    /\ pc = "select" /\ queue # <<>>
    /\ LET idx == Head(queue) IN
       /\ queue' = Tail(queue)
       /\ IF idx \notin DOMAIN pfs
          THEN \* i.PFs[index] is nil and p.Update() dereferences it
               /\ pc' = "panic"
               /\ ev' = [op |-> "notify", pf |-> idx, upd |-> Panic,
                         inspect |-> "-", m |-> NoLookup, call |-> "-"]
               /\ UNCHANGED <<pfs, tasks, waitOn>>
          ELSE \E link \in LinkAnswers(names) :
               LET u == Update(pfs[idx], link)
                   P == [pfs EXCEPT ![idx] = u.pf]
               IN
               IF ~u.updated
               THEN /\ ev' = [op |-> "notify", pf |-> idx,
                              upd |-> IF u.err THEN "err" ELSE "same",
                              inspect |-> "-", m |-> NoLookup, call |-> "-"]
                    /\ pfs' = P
                    /\ UNCHANGED <<tasks, pc, waitOn>>
               ELSE \E m \in (IF InspectLooksUp(u.pf) THEN MasterAnswers
                                                      ELSE {NoLookup}) :
                    LET r == Inspect(u.pf, m)
                        s == StartMonitoring(P, tasks, idx)
                        c == StopMonitoringCall(P, tasks, idx)
                    IN
                    /\ ev' = [op |-> "notify", pf |-> idx, upd |-> "changed",
                              inspect |-> r, m |-> m,
                              call |-> IF r = Panic THEN "-"
                                       ELSE IF r = InspectOK THEN s.call
                                       ELSE c.call]
                    /\ IF r = Panic
                       THEN /\ pc' = "panic"
                            /\ pfs' = P
                            /\ UNCHANGED <<tasks, waitOn>>
                       ELSE IF r = InspectOK
                       THEN /\ pfs' = s.pfs
                            /\ tasks' = s.tasks
                            /\ UNCHANGED <<pc, waitOn>>
                       ELSE /\ pfs' = P
                            /\ tasks' = c.tasks
                            /\ waitOn' = (IF c.call = "stop-wait" THEN idx ELSE Nil)
                            /\ pc' = (IF c.call = "stop-wait" THEN "stop" ELSE "select")
    /\ UNCHANGED <<rootDone, todo, names, vfs>>

\* the receive of a blocked StopMonitoring completes and StopMonitoring
\* returns: the notification is processed, the shutdown loop goes on to its
\* next PF, or the direct caller has its answer
Join(idx) ==
    /\ Alive
    /\ StopMonitoringJoin(idx)
    /\ pc' = (IF pc = "stop" THEN "select"
              ELSE IF pc = "api-stop" THEN "api" ELSE pc)
    /\ todo' = todo \ {idx}
    /\ ev' = [op |-> "join", pf |-> idx, from |-> pc]
    /\ UNCHANGED <<queue, rootDone, names, vfs>>

\* main: the signal arrives and cancel() cancels the root context
RootCancel ==
    /\ Alive /\ pc # "startup"
    /\ ~rootDone
    /\ rootDone' = TRUE
    /\ ev' = [op |-> "cancel"]
    /\ UNCHANGED <<pfs, tasks, queue, pc, todo, waitOn, names, vfs>>

\* "case <-ctx.Done()": the select takes the cancellation
ShutdownBegin ==
    /\ pc = "select" /\ rootDone
    /\ pc' = "shutdown"
    /\ todo' = DOMAIN pfs
    /\ ev' = [op |-> "shutdown", pf |-> Nil, call |-> "-"]
    /\ UNCHANGED <<pfs, tasks, queue, rootDone, waitOn, names, vfs>>

\* one iteration of the shutdown loop: p.StopMonitoring()
ShutdownStop(idx) ==
    /\ pc = "shutdown" /\ waitOn = Nil /\ idx \in todo
    /\ LET c == StopMonitoringCall(pfs, tasks, idx) IN
       /\ tasks' = c.tasks
       /\ waitOn' = (IF c.call = "stop-wait" THEN idx ELSE Nil)
       /\ todo' = (IF c.call = "stop-wait" THEN todo ELSE todo \ {idx})
       /\ ev' = [op |-> "shutdown", pf |-> idx, call |-> c.call]
    /\ UNCHANGED <<pfs, queue, rootDone, pc, names, vfs>>

ShutdownReturn_Break ==
    /\ pc = "shutdown" /\ waitOn = Nil /\ todo = {}
    /\ pc' = "select"
    /\ ev' = [op |-> "return"]
    /\ UNCHANGED <<pfs, tasks, queue, rootDone, todo, waitOn, names, vfs>>

\* the loop is over: the dispatch goroutine returns (wg.Done)
ShutdownReturn ==
    /\ pc = "shutdown" /\ waitOn = Nil /\ todo = {}
    /\ pc' = "returned"
    /\ ev' = [op |-> "return"]
    /\ UNCHANGED <<pfs, tasks, queue, rootDone, todo, waitOn, names, vfs>>

\* ------------------------------------------------------------- direct calls
\* a caller of the PF's exported methods, one call at a time, in any order:
\* p.Inspect()
CallInspect(idx) ==
    /\ pc = "api" /\ idx \in DOMAIN pfs
    /\ \E m \in (IF InspectLooksUp(pfs[idx]) THEN MasterAnswers ELSE {NoLookup}) :
         LET r == Inspect(pfs[idx], m) IN
         /\ ev' = [op |-> "Inspect", pf |-> idx, m |-> m, result |-> r]
         /\ pc' = (IF r = Panic THEN "panic" ELSE pc)
    /\ UNCHANGED <<pfs, tasks, queue, rootDone, todo, waitOn, names, vfs>>

\* p.Update()
CallUpdate(idx) ==
    /\ pc = "api" /\ idx \in DOMAIN pfs
    /\ \E link \in LinkAnswers(names) :
         LET u == Update(pfs[idx], link) IN
         /\ pfs' = [pfs EXCEPT ![idx] = u.pf]
         /\ ev' = [op |-> "Update", pf |-> idx, link |-> link,
                   updated |-> u.updated, err |-> u.err]
    /\ UNCHANGED <<tasks, queue, rootDone, pc, todo, waitOn, names, vfs>>

\* p.StartMonitoring(ctx)
CallStart(idx) ==
    /\ pc = "api" /\ idx \in DOMAIN pfs
    /\ LET s == StartMonitoring(pfs, tasks, idx) IN
       /\ pfs' = s.pfs
       /\ tasks' = s.tasks
       /\ ev' = [op |-> "StartMonitoring", pf |-> idx, call |-> s.call]
    /\ UNCHANGED <<queue, rootDone, pc, todo, waitOn, names, vfs>>

\* p.StopMonitoring(), up to its receive from p.endChan
CallStop(idx) ==
    /\ pc = "api" /\ idx \in DOMAIN pfs
    /\ LET c == StopMonitoringCall(pfs, tasks, idx) IN
       /\ tasks' = c.tasks
       /\ waitOn' = (IF c.call = "stop-wait" THEN idx ELSE Nil)
       /\ pc' = (IF c.call = "stop-wait" THEN "api-stop" ELSE pc)
       /\ ev' = [op |-> "StopMonitoring", pf |-> idx, call |-> c.call]
    /\ UNCHANGED <<pfs, queue, rootDone, todo, names, vfs>>

\* ------------------------------------------------------------- system
InitPF(idx) ==
    {[Name |-> "ens1", Index |-> idx, OperState |-> o, MasterIndex |-> mi,
      Monitoring |-> FALSE, cancel |-> Nil, endChan |-> Nil] :
        o \in OperStates, mi \in MasterIndexes}

\* the registries New can build over the links of `keys`
Registries(keys) ==
    {P \in [keys -> UNION {InitPF(i) : i \in keys}] :
        \A i \in keys : P[i].Index = i}

\* the state New leaves when every configured name resolved: no goroutine
\* yet, Start about to run. Links keep their names and have no VFs.
Init ==
    /\ pfs \in Registries(Indexes)
    /\ tasks = {}
    /\ queue = <<>>
    /\ rootDone = FALSE
    /\ pc = "startup"
    /\ todo = Indexes
    /\ waitOn = Nil
    /\ names = {"ens1"}
    /\ vfs = [i \in Indexes |-> <<>>]
    /\ ev = [op |-> "init"]

Next ==
    \/ \E idx \in Indexes : Startup(idx)
    \/ \E idx \in Indexes : Produce(idx)
    \/ Notify
    \/ \E idx \in Indexes : Join(idx)
    \/ RootCancel
    \/ ShutdownBegin
    \/ \E idx \in Indexes : ShutdownStop(idx)
    \/ ShutdownReturn
    \/ \E t \in tasks : TickBegin(t)
    \/ \E t \in tasks : TaskExit(t)

Spec == Init /\ [][Next]_vars

\* scheduling: a goroutine that can run does run, a blocked receive whose
\* sender is ready completes, and a select whose cancellation case is ready
\* again and again takes it in the end (Go picks among the ready cases at
\* random)
Fairness ==
    /\ \A idx \in Indexes : WF_vars(Startup(idx))
    /\ WF_vars(Notify)
    /\ \A idx \in Indexes : WF_vars(Join(idx))
    /\ SF_vars(ShutdownBegin)
    /\ \A idx \in Indexes : WF_vars(ShutdownStop(idx))
    /\ WF_vars(ShutdownReturn)
    /\ SF_vars(\E t \in tasks : TaskExit(t))

FairSpec == Spec /\ Fairness

\* the dispatch loop fed with the indexes of links the registry does not hold:
\* New resolved the first link only, the Link Event Source reports both
InitForeign ==
    /\ pfs \in Registries({1})
    /\ tasks = {}
    /\ queue = <<>>
    /\ rootDone = FALSE
    /\ pc = "startup"
    /\ todo = {1}
    /\ waitOn = Nil
    /\ names = {"ens1"}
    /\ vfs = [i \in Indexes |-> <<>>]
    /\ ev = [op |-> "init"]

SpecForeign == InitForeign /\ [][Next]_vars

\* the methods of one PF under direct calls: the registry holds the first link
\* only, with any cached attributes, and the link is renamed at times; the
\* goroutine of a StartMonitoring ticks between and during the calls, on a
\* link without VFs
InitAPI ==
    /\ pfs \in Registries({1})
    /\ tasks = {}
    /\ queue = <<>>
    /\ rootDone = FALSE
    /\ pc = "api"
    /\ todo = {}
    /\ waitOn = Nil
    /\ names = Names
    /\ vfs = [i \in Indexes |-> <<>>]
    /\ ev = [op |-> "init"]

NextAPI ==
    \/ \E idx \in Indexes : CallInspect(idx)
    \/ \E idx \in Indexes : CallUpdate(idx)
    \/ \E idx \in Indexes : CallStart(idx)
    \/ \E idx \in Indexes : CallStop(idx)
    \/ \E idx \in Indexes : Join(idx)
    \/ RootCancel
    \/ \E t \in tasks : TickBegin(t)
    \/ \E t \in tasks : TaskExit(t)

SpecAPI == InitAPI /\ [][NextAPI]_vars

\* one PF under monitoring: the registry holds the first link only, which is
\* eligible; its VFs are any list and change; the other links have VFs that
\* a write would change
EligiblePF(idx) ==
    [Name |-> "ens1", Index |-> idx, OperState |-> OperUp, MasterIndex |-> 10,
     Monitoring |-> FALSE, cancel |-> Nil, endChan |-> Nil]

InitMon ==
    /\ pfs = [i \in {1} |-> EligiblePF(i)]
    /\ tasks = {}
    /\ queue = <<>>
    /\ rootDone = FALSE
    /\ pc = "api"
    /\ todo = {}
    /\ waitOn = Nil
    /\ names = {"ens1"}
    /\ vfs \in {v \in [Indexes -> VfLists] :
                  \A i \in Indexes \ {1} :
                      v[i] = <<VF_LINK_STATE_DISABLE, VF_LINK_STATE_AUTO>>}
    /\ ev = [op |-> "init"]

NextMon ==
    \/ \E idx \in Indexes : CallStart(idx)
    \/ \E idx \in Indexes : CallStop(idx)
    \/ \E idx \in Indexes : Join(idx)
    \/ RootCancel
    \/ \E t \in tasks : TickBegin(t)
    \/ \E t \in tasks : WriteVf(t)
    \/ \E t \in tasks : TaskExit(t)
    \/ \E l \in VfLists : VfChange(1, l)

SpecMon == InitMon /\ [][NextMon]_vars

\* ------------------------------------------------------------- field accesses
\* the cached attributes of its PF that the goroutine reads in a tick that
\* ended with `outcome` and logged `logs`: p.Index for the lookup, and p.Name
\* as an argument of every log call the tick makes (the Debug calls in the
\* range loops included, whose arguments are evaluated at any log level)
TickFieldReads(outcome, logs) ==
    {"Index"} \cup (IF outcome = "novfs" /\ logs = {} THEN {} ELSE {"Name"})

\* the cached attributes an Update call writes
UpdateFieldWrites(u) ==
    IF u.updated THEN {"Name", "Index", "OperState", "MasterIndex"} ELSE {}

\* the goroutine t can run a tick now, and the dispatch loop can now take a
\* notification for t's PF whose Update writes a field that the tick reads:
\* the two run in different goroutines with nothing that orders them
RacingAccess(t) ==
    /\ Alive /\ t.st = "select"
    /\ pc = "select" /\ queue # <<>> /\ Head(queue) = t.pf
    /\ \E link \in LinkAttrs(names), read \in TickReads(pfs[t.pf].Index) :
          LET r == Tick(t, read) IN
          UpdateFieldWrites(Update(pfs[t.pf], link))
              \cap TickFieldReads(r.outcome, r.logs) # {}

\* ------------------------------------------------------------- claims
Monitored(idx) == pfs[idx].Monitoring

\* C1: in every reachable state and for every PF, a true Monitoring flag
\* means exactly one monitoring goroutine of that PF exists, the one the PF's
\* cancel and endChan belong to, and a false flag means none exists.
C1_MonitoringIffOneTask ==
    \A idx \in DOMAIN pfs :
        IF Monitored(idx)
        THEN /\ Cardinality(TasksOf(tasks, idx)) = 1
             /\ \A t \in TasksOf(tasks, idx) :
                    t.id = pfs[idx].cancel /\ t.id = pfs[idx].endChan
        ELSE TasksOf(tasks, idx) = {}

\* a notification's StopMonitoring has just joined one PF's goroutine while
\* another PF is monitored by a live goroutine
C1_Witness ==
    /\ ev.op = "join" /\ ev.from = "stop"
    /\ ~Monitored(ev.pf) /\ pfs[ev.pf].cancel # Nil
    /\ \E a \in DOMAIN pfs : Monitored(a) /\ TasksOf(tasks, a) # {}

\* C2: a StartMonitoring call on a PF whose Monitoring flag is true spawns
\* nothing and changes no field of the PF (flag, cancel, endChan), and after
\* it the PF has exactly one goroutine.
C2_StartIdempotent ==
    [][\A idx \in DOMAIN pfs :
          (ev'.op = "StartMonitoring" /\ ev'.pf = idx /\ Monitored(idx))
          => /\ pfs' = pfs
             /\ tasks' = tasks
             /\ Cardinality(TasksOf(tasks', idx)) = 1]_vars

\* StartMonitoring has just returned from its guard on a monitoring PF
C2_Witness ==
    /\ ev.op = "StartMonitoring" /\ ev.call = "start-noop"
    /\ Monitored(ev.pf) /\ pc = "api"

\* C3: when a StopMonitoring call on a monitoring PF returns, the goroutine
\* of the preceding StartMonitoring has sent on endChan and is gone and
\* Monitoring is false; only the goroutine of a monitoring PF's current Start
\* calls LinkSetVfState; and StartMonitoring spawns only when no goroutine
\* of an earlier Start of that PF is left.
C3_StopJoins ==
    [][/\ ev'.op = "join"
          => /\ ~pfs'[ev'.pf].Monitoring
             /\ TasksOf(tasks', ev'.pf) = {}
             /\ \E t \in tasks : /\ t.id = pfs[ev'.pf].cancel
                                 /\ t.st = "send"
                                 /\ t.cancelled
       /\ ev'.op = "write"
          => /\ Monitored(ev'.pf)
             /\ ev'.id = pfs[ev'.pf].cancel
       /\ (ev'.op = "StartMonitoring" /\ ev'.call = "start-spawn")
          => TasksOf(tasks, ev'.pf) = {}]_vars

\* StopMonitoring has just returned to its caller after the join; the root
\* context is not cancelled, so the goroutine ended on p.cancel() alone
C3_Witness ==
    /\ ev.op = "join" /\ ev.from = "api-stop" /\ pc = "api"
    /\ ~rootDone
    /\ ~Monitored(ev.pf) /\ TasksOf(tasks, ev.pf) = {}

\* C4: a StopMonitoring call on a PF whose Monitoring flag is false returns
\* without blocking, cancels nothing and changes no field of the PF.
C4_StopNoop ==
    [][\A idx \in DOMAIN pfs :
          (ev'.op = "StopMonitoring" /\ ev'.pf = idx /\ ~Monitored(idx))
          => /\ pfs' = pfs
             /\ tasks' = tasks
             /\ pc' = pc /\ waitOn' = Nil]_vars

\* StopMonitoring has just returned on a PF that was monitored and stopped
\* before: its stale endChan has no sender left
C4_Witness ==
    /\ ev.op = "StopMonitoring" /\ ev.call = "stop-noop"
    /\ ~Monitored(ev.pf) /\ pfs[ev.pf].endChan # Nil
    /\ pc = "api"

\* the positions of a VF list whose VF a tick with protocol state `up` has to
\* set, in the list's order
ToSet(snap, up) ==
    SelectSeq([k \in 1 .. Len(snap) |-> k], LAMBDA k : snap[k] = WriteFrom(up))

\* C5: every LinkSetVfState call of a goroutine sets to auto a VF that this
\* tick's read showed in state disable, in a tick that found the protocol up,
\* or sets to disable a VF the read showed in state auto, in a tick that
\* found it down; it is made on the link of the goroutine's own PF, and
\* changes no VF of another link.
C5_WritesOnlyDisableAutoOfOwnPF ==
    [][ev'.op = "write"
       => /\ \/ /\ ev'.state = VF_LINK_STATE_AUTO
                /\ ev'.read = VF_LINK_STATE_DISABLE /\ ev'.up
             \/ /\ ev'.state = VF_LINK_STATE_DISABLE
                /\ ev'.read = VF_LINK_STATE_AUTO /\ ~ev'.up
          /\ ev'.link = pfs[ev'.pf].Index
          /\ \E t \in tasks : /\ t.id = ev'.id /\ t.pf = ev'.pf
                              /\ ev'.read = t.snap[ev'.vf]
          /\ \A i \in DOMAIN vfs : i # ev'.pf => vfs'[i] = vfs[i]]_vars

\* a goroutine has just set a VF of its PF to disable, in a tick whose read
\* showed another VF of that PF in state enable
C5_Witness ==
    /\ ev.op = "write" /\ ev.ok /\ ev.state = VF_LINK_STATE_DISABLE
    /\ \E k \in 1 .. Len(ev.snap) : ev.snap[k] = VF_LINK_STATE_ENABLE

\* a tick that reached the range loops has just ended
TickReconciled ==
    /\ ev.op \in {"tick", "write"} /\ ev.done
    /\ ev.op = "tick" => ev.outcome \in {"up", "down"}
TickSnap == IF ev.op = "tick" THEN ev.read.Vfs ELSE ev.snap
TickUp == IF ev.op = "tick" THEN ev.outcome = "up" ELSE ev.up
TickLink == IF ev.op = "tick" THEN ev.read.Index ELSE ev.link

\* C6 as stated: when a tick that reached reconciliation ends, every VF that
\* the tick read in state disable (protocol up) is in state auto, every VF it
\* read in state auto (protocol down) is in state disable, and every other
\* VF is in the state the tick read.
C6_AsStated ==
    TickReconciled =>
        /\ Len(vfs[TickLink]) = Len(TickSnap)
        /\ \A k \in 1 .. Len(TickSnap) :
              vfs[TickLink][k] = IF TickSnap[k] = WriteFrom(TickUp)
                                 THEN WriteTo(TickUp) ELSE TickSnap[k]

\* C6 amended: a tick that reached reconciliation calls LinkSetVfState once
\* for every VF its read showed in state disable (protocol up: to auto) or
\* auto (protocol down: to disable), in the list's order, and for no other
\* VF; a call the kernel accepts leaves that VF in the requested state and
\* changes nothing else, a call it refuses changes nothing.
C6_RequestsExactlyTheVFsToSet ==
    /\ [](TickReconciled =>
            /\ [k \in 1 .. Len(ev.reqs) |-> ev.reqs[k].vf] = ToSet(TickSnap, TickUp)
            /\ \A k \in 1 .. Len(ev.reqs) : ev.reqs[k].state = WriteTo(TickUp))
    /\ [][/\ ev'.op = "write"
             => vfs' = IF ev'.ok
                       THEN [vfs EXCEPT ![ev'.link][ev'.vf] = ev'.state]
                       ELSE vfs
          /\ ev'.op = "tick" => vfs' = vfs]_vars

\* a tick that found the protocol up and read two VFs in state disable has
\* just ended: the kernel refused the first call and accepted the second
C6_Witness ==
    /\ TickReconciled /\ TickUp
    /\ TickSnap = <<VF_LINK_STATE_DISABLE, VF_LINK_STATE_DISABLE>>
    /\ Len(ev.reqs) = 2 /\ ~ev.reqs[1].ok /\ ev.reqs[2].ok
    /\ vfs[TickLink] = <<VF_LINK_STATE_DISABLE, VF_LINK_STATE_AUTO>>

\* C7: Inspect succeeds exactly when the cached operational state is up, the
\* cached master index is not 0 and the master resolves to a bond of mode
\* 802.3ad; otherwise it returns the error of the clause that is violated,
\* and the process goes on.
C7_InspectContract ==
    ev.op = "Inspect" =>
        LET p == pfs[ev.pf]
            eligible == /\ p.OperState = OperUp
                        /\ p.MasterIndex # NoMaster
                        /\ ev.m.kind = "bond"
                        /\ ev.m.Mode = BOND_MODE_802_3AD
        IN  /\ (ev.result = InspectOK) <=> eligible
            /\ ~eligible =>
                 /\ ev.result \in InspectErrors
                 /\ ev.result = ErrLinkDown <=> p.OperState # OperUp
                 /\ ev.result = ErrNoMaster <=>
                        (p.OperState = OperUp /\ p.MasterIndex = NoMaster)
                 /\ ev.result = ErrFetchMaster <=> ev.m.kind = "error"
                 /\ ev.result = ErrBondMode <=> ev.m.kind \notin {"none", "error"}
            /\ Alive

\* C8: an Update call whose link resolves returns false and leaves the
\* cached attributes as they are when the link's operational state equals
\* the cached one, whatever the link's name and master index; otherwise it
\* returns true and the cached name, index, operational state and master
\* index are those of the link.
C8_UpdateChangeDetection ==
    [][(ev'.op = "Update" /\ ev'.link.found)
       => LET old == pfs[ev'.pf]
              new == pfs'[ev'.pf]
              l == ev'.link
          IN  /\ ~ev'.err
              /\ IF l.OperState = old.OperState
                 THEN ~ev'.updated /\ new = old
                 ELSE /\ ev'.updated
                      /\ new.Name = l.Name
                      /\ new.Index = ev'.pf
                      /\ new.OperState = l.OperState
                      /\ new.MasterIndex = l.MasterIndex
                      /\ new.Monitoring = old.Monitoring
                      /\ new.cancel = old.cancel /\ new.endChan = old.endChan]_vars

\* Update has just returned false for a link whose name and master index
\* both differ from the cached ones
C8_Witness ==
    /\ ev.op = "Update" /\ ev.link.found /\ ~ev.updated
    /\ ev.link.Name # pfs[ev.pf].Name
    /\ ev.link.MasterIndex # pfs[ev.pf].MasterIndex
    /\ ev.link.OperState = pfs[ev.pf].OperState

\* C9: a notification for a known PF whose Update reports a change ends with
\* Monitoring true when Inspect succeeded and, when Inspect failed, with
\* Monitoring false, a goroutine that was running joined first; one whose
\* Update reports no change leaves the PF, its goroutine and the dispatcher
\* as they were; and no notification touches another PF or its goroutine.
C9_NotificationOutcome ==
    [][/\ (ev'.op = "notify" /\ ev'.pf \in DOMAIN pfs)
          => LET p == ev'.pf IN
             /\ (ev'.upd = "changed" /\ ev'.inspect = InspectOK)
                => /\ pc' = "select"
                   /\ pfs'[p].Monitoring
                   /\ Cardinality(TasksOf(tasks', p)) = 1
             /\ (ev'.upd = "changed" /\ ev'.inspect \in InspectErrors)
                => IF Monitored(p)
                   THEN pc' = "stop" /\ waitOn' = p
                   ELSE pc' = "select" /\ ~pfs'[p].Monitoring
                        /\ tasks' = tasks
             /\ ev'.upd \in {"same", "err"}
                => pfs' = pfs /\ tasks' = tasks /\ pc' = "select"
             /\ \A q \in DOMAIN pfs \ {p} :
                   pfs'[q] = pfs[q] /\ TasksOf(tasks', q) = TasksOf(tasks, q)
       /\ (ev'.op = "join" /\ ev'.from = "stop")
          => LET p == ev'.pf IN
             /\ pc' = "select"
             /\ ~pfs'[p].Monitoring /\ TasksOf(tasks', p) = {}
             /\ \A q \in DOMAIN pfs \ {p} :
                   pfs'[q] = pfs[q] /\ TasksOf(tasks', q) = TasksOf(tasks, q)]_vars

\* a notification has just started monitoring of a PF after a change that
\* Inspect accepted, while the other PF, stopped by an earlier notification,
\* stays unmonitored
C9_Witness ==
    /\ ev.op = "notify" /\ ev.upd = "changed" /\ ev.inspect = InspectOK
    /\ ev.call = "start-spawn" /\ pc = "select"
    /\ Monitored(ev.pf)
    /\ \E q \in DOMAIN pfs \ {ev.pf} : ~Monitored(q) /\ pfs[q].cancel # Nil

\* C10: once the root context is cancelled the dispatch loop returns in the
\* end, and when it has returned no PF is monitoring and no monitoring
\* goroutine is left, running or blocked in its send.
C10_ShutdownCompleteness ==
    /\ rootDone ~> (pc = "returned")
    /\ [](pc = "returned" =>
            /\ \A idx \in DOMAIN pfs : ~Monitored(idx)
            /\ tasks = {})

\* C11: a notification whose index is not a key of the registry is ignored:
\* the dispatch loop is back in its select with the process running, and no
\* PF and no goroutine has changed.
C11_UnknownIndexIgnored ==
    [][(ev'.op = "notify" /\ ev'.pf \notin DOMAIN pfs)
       => /\ pc' = "select"
          /\ pfs' = pfs /\ tasks' = tasks /\ waitOn' = waitOn]_vars

\* C12 as stated: a tick logs "interface has no VFs" exactly when it reads
\* an empty VF list and the goroutine's previous tick did not (it is the
\* first tick of a run of consecutive ticks that read an empty list).
C12_AsStated ==
    ev.op = "tick" =>
        ("interface has no VFs" \in ev.logs
            <=> (ev.outcome = "novfs" /\ ev.run # "empty"))

\* C12 amended: a tick logs "interface has no VFs" exactly when it reads an
\* empty VF list and no earlier tick of the goroutine has read an empty list
\* since the goroutine started or last read a list with VFs; ticks whose read
\* failed in between neither log nor re-arm the log.
C12_NoVFLogOncePerRun ==
    ev.op = "tick" =>
        ("interface has no VFs" \in ev.logs
            <=> (ev.outcome = "novfs" /\ ev.run = "none"))

\* a tick has just read an empty VF list and stayed silent, after an empty
\* read and then failed reads of the same goroutine
C12_Witness ==
    /\ ev.op = "tick" /\ ev.outcome = "novfs" /\ ev.run = "broken"
    /\ ev.logs = {}

\* C13 as stated: a goroutine whose derived context is cancelled (by
\* StopMonitoring or through the root context) starts no tick and calls
\* LinkSetVfState no more; it leaves its select through stop.Done() and,
\* blocked in its deferred send, does nothing else until the receive takes
\* its one value.
C13_NothingAfterCancel ==
    [][\A t \in tasks :
          /\ (ev'.op \in {"tick", "write"} /\ ev'.id = t.id) => ~CtxDone(t)
          /\ (ev'.op = "exit" /\ ev'.id = t.id)
                => CtxDone(t) /\ t.st = "select"
          /\ t.st = "send"
                => \/ \E u \in tasks' : u = [t EXCEPT !.cancelled = u.cancelled]
                   \/ (ev'.op = "join" /\ \A u \in tasks' : u.id # t.id)]_vars

\* C13 amended: a goroutine leaves its loop only from its select and only
\* when its derived context is cancelled; once it has taken stop.Done() it
\* starts no tick and calls LinkSetVfState no more, and, blocked in its
\* deferred send, it stays as it is until the receive takes its one value.
\* (Between the cancellation and that, a tick in progress runs to its end
\* and the select may still take the timer.)
C13_NothingAfterExit ==
    [][\A t \in tasks :
          /\ (ev'.op \in {"tick", "write"} /\ ev'.id = t.id) => t.st # "send"
          /\ (ev'.op = "exit" /\ ev'.id = t.id)
                => /\ CtxDone(t) /\ t.st = "select"
                   /\ vfs' = vfs
                   /\ \E u \in tasks' : u.id = t.id /\ u.st = "send"
          /\ t.st = "send"
                => \/ \E u \in tasks' : u = [t EXCEPT !.cancelled = u.cancelled]
                   \/ (ev'.op = "join" /\ \A u \in tasks' : u.id # t.id)]_vars

\* a goroutine cancelled by StopMonitoring in the middle of a tick has
\* finished the tick's writes, taken stop.Done() and is blocked in its send
C13_Witness ==
    /\ ev.op = "exit" /\ pc = "api-stop" /\ ~rootDone
    /\ \E t \in tasks : t.id = ev.id /\ t.st = "send" /\ t.cancelled
    /\ vfs[1] = <<VF_LINK_STATE_AUTO, VF_LINK_STATE_AUTO>>

\* the ticks that skip reconciliation: the read failed, the VF list is
\* empty, the link has no slave record, or the record is not a bond slave's
SkippedTick == {"readfail", "novfs", "noslave", "badslave"}

\* C14: a tick that skips reconciliation calls LinkSetVfState for no VF and
\* changes none, leaves the goroutine's lacpUp and firstDownLog as they were,
\* and ends with the goroutine alive in its select, from which it ticks again
\* and which it leaves only through a cancelled context.
C14_SkippedTickKeepsTask ==
    [][/\ (ev'.op = "tick" /\ ev'.outcome \in SkippedTick)
          => /\ vfs' = vfs /\ ev'.reqs = <<>> /\ ev'.done
             /\ \A t \in tasks : t.id = ev'.id =>
                  \E u \in tasks' :
                     /\ u.id = t.id /\ u.pf = t.pf
                     /\ u.lacpUp = t.lacpUp
                     /\ u.firstDownLog = t.firstDownLog
                     /\ u.st = "select" /\ u.cancelled = t.cancelled
             /\ Cardinality(tasks') = Cardinality(tasks)
             /\ pc' = pc
       /\ ev'.op = "exit" => \A t \in tasks : t.id = ev'.id => CtxDone(t)]_vars

\* a goroutine that had found the protocol up has just run a tick on a link
\* without a slave record, and is back in its select with lacpUp still true
C14_Witness ==
    /\ ev.op = "tick" /\ ev.outcome = "noslave"
    /\ \E t \in tasks : /\ t.id = ev.id /\ t.lacpUp /\ t.st = "select"
                        /\ ~CtxDone(t)

\* C15: a LinkSetVfState call that fails is not repeated in its tick and does
\* not end the range loop: the loop goes on to the next VF of the tick's read
\* that is in the state to change, or, when there is none, the tick ends and
\* the goroutine is back in its select; so a tick with a failed call has
\* still made one call for each such VF, in the order of the read.
C15_FailedWriteIsolated ==
    /\ [][(ev'.op = "write" /\ ~ev'.ok)
          => /\ vfs' = vfs
             /\ \A t \in tasks : t.id = ev'.id =>
                  LET rest == {k \in (t.i + 1) .. Len(t.snap) :
                                  t.snap[k] = WriteFrom(t.up)}
                  IN  \E u \in tasks' :
                        /\ u.id = t.id
                        /\ IF rest = {}
                           THEN u.st = "select" /\ ev'.done
                           ELSE /\ u.st = "loop" /\ u.i = Least(rest)
                                /\ u.snap = t.snap /\ u.up = t.up
                                /\ ~ev'.done]_vars
    /\ []((TickReconciled /\ \E k \in 1 .. Len(ev.reqs) : ~ev.reqs[k].ok)
            => /\ \A k \in 1 .. Len(TickSnap) :
                    Cardinality({n \in 1 .. Len(ev.reqs) : ev.reqs[n].vf = k})
                      = IF TickSnap[k] = WriteFrom(TickUp) THEN 1 ELSE 0
               /\ \A m, n \in 1 .. Len(ev.reqs) :
                    m < n => ev.reqs[m].vf < ev.reqs[n].vf
               /\ \E t \in tasks : t.id = ev.id /\ t.st = "select")

\* a tick that found the protocol down and read two VFs in state auto has
\* just ended: the call for the first VF failed, the call for the second
\* was made all the same and set it, and the goroutine is in its select
C15_Witness ==
    /\ TickReconciled /\ ~TickUp
    /\ TickSnap = <<VF_LINK_STATE_AUTO, VF_LINK_STATE_AUTO>>
    /\ Len(ev.reqs) = 2 /\ ~ev.reqs[1].ok /\ ev.reqs[2].ok
    /\ ev.reqs[1].vf = 1 /\ ev.reqs[2].vf = 2
    /\ \E t \in tasks : t.id = ev.id /\ t.st = "select"

\* C16 as stated: the dispatch loop takes no notification from the queue
\* once the root context is cancelled.
C16_AsStated ==
    [][ev'.op = "notify" => ~rootDone]_vars

\* C16 amended: once the dispatch loop's select has taken ctx.Done(), it
\* takes nothing from the queue any more, whatever is pending there: no
\* Update, Inspect or StartMonitoring follows, no cached attribute changes,
\* no goroutine is spawned and no PF becomes monitoring; the loop only stops
\* the PFs and returns.
C16_NoNotificationOnceShutdownBegan ==
    [][(pc = "shutdown" \/ pc = "returned")
       => /\ ev'.op \in {"shutdown", "join", "return", "produce", "tick", "exit"}
          /\ Len(queue') >= Len(queue)
          /\ SubSeq(queue', 1, Len(queue)) = queue
          /\ pc' \in {"shutdown", "returned"}
          /\ \A idx \in DOMAIN pfs :
                /\ pfs'[idx] = [pfs[idx] EXCEPT !.Monitoring = pfs'[idx].Monitoring]
                /\ pfs'[idx].Monitoring => pfs[idx].Monitoring
          /\ {t.id : t \in tasks'} \subseteq {t.id : t \in tasks}]_vars

\* the dispatch loop has returned after stopping a PF that was monitoring,
\* and notifications are left in the queue
C16_Witness ==
    /\ pc = "returned" /\ ev.op = "return" /\ queue # <<>>
    /\ \E idx \in DOMAIN pfs : ~Monitored(idx) /\ pfs[idx].cancel # Nil

\* C17: a tick that reaches the LACP check logs "lacp is up" exactly when
\* the protocol is up and lacpUp was false, and "lacp is down" exactly when
\* the protocol is down and lacpUp was true or the goroutine has not logged
\* "lacp is down" before; neither message follows itself without the other
\* in between; the first such tick of a goroutine logs the state it finds;
\* and a tick that does not reach the check logs neither.
C17_LacpTransitionsLogged ==
    [][ev'.op = "tick"
       => \A t \in tasks : t.id = ev'.id =>
            LET up == "lacp is up" \in ev'.logs
                down == "lacp is down" \in ev'.logs
            IN  /\ up <=> (ev'.outcome = "up" /\ ~t.lacpUp)
                /\ down <=> (ev'.outcome = "down" /\ (t.lacpUp \/ ~t.lacp.down))
                /\ up => t.lacp.last # "up"
                /\ down => t.lacp.last # "down"
                /\ (ev'.outcome \in {"up", "down"} /\ t.lacp.last = "none")
                      => (up \/ down)
                /\ ~(up /\ down)]_vars

\* a goroutine that has logged "lacp is down" and found the protocol down
\* again has just run a silent tick
C17_Witness ==
    /\ ev.op = "tick" /\ ev.outcome = "down" /\ ev.logs = {}
    /\ \E t \in tasks : /\ t.id = ev.id /\ ~t.lacpUp /\ ~t.firstDownLog
                        /\ t.lacp.last = "down"

\* C18: only the dispatch loop writes a PF's record; a goroutine's tick,
\* write and exit steps leave every PF record as it is and read no cached
\* attribute of the goroutine's PF; and in no state can a tick of a goroutine
\* and an Update that writes a field the tick reads both be the next step.
C18_OwnershipDiscipline ==
    /\ [][/\ ev'.op \in {"tick", "write", "exit"} => pfs' = pfs
          /\ ev'.op = "tick" => TickFieldReads(ev'.outcome, ev'.logs) = {}]_vars
    /\ [](\A t \in tasks : ~RacingAccess(t))

\* C19: whenever the dispatch loop waits in its select for the next
\* notification and the root context is not cancelled, every PF whose
\* Monitoring flag is true has cached operational state up and a cached
\* master index that is not 0.
C19_MonitoringImpliesEligibleCache ==
    (pc = "select" /\ ~rootDone)
        => \A idx \in DOMAIN pfs :
              Monitored(idx) => /\ pfs[idx].OperState = OperUp
                                /\ pfs[idx].MasterIndex # NoMaster

\* the dispatch loop is back in its select after a notification for a
\* monitoring PF whose Update found the operational state unchanged, while
\* the other PF, stopped by an earlier notification, is not monitoring
C19_Witness ==
    /\ pc = "select" /\ ~rootDone /\ queue = <<>>
    /\ ev.op = "notify" /\ ev.upd = "same" /\ Monitored(ev.pf)
    /\ \E q \in DOMAIN pfs : /\ ~Monitored(q) /\ pfs[q].cancel # Nil
                             /\ pfs[q].OperState # OperUp

\* C20: a notification for a known PF whose Update fails to resolve the link
\* runs no Inspect, StartMonitoring or StopMonitoring, leaves every PF record
\* (cached attributes, Monitoring flag) and every goroutine as they were, a
\* running goroutine of the PF included, and ends with the dispatch loop in
\* its select, ready for the next notification.
C20_UpdateErrorLeavesPF ==
    [][(ev'.op = "notify" /\ ev'.pf \in DOMAIN pfs /\ ev'.upd = "err")
       => /\ pfs' = pfs /\ tasks' = tasks
          /\ ev'.inspect = "-" /\ ev'.call = "-"
          /\ pc' = "select" /\ waitOn' = Nil
          /\ queue' = Tail(queue)
          /\ Monitored(ev'.pf)
                => \E t \in tasks' : /\ t.pf = ev'.pf
                                     /\ t.id = pfs'[ev'.pf].cancel
                                     /\ ~t.cancelled]_vars

\* Update has just failed for a monitoring PF: its goroutine is still in its
\* loop, not cancelled, and the next notification waits in the queue
C20_Witness ==
    /\ ev.op = "notify" /\ ev.upd = "err" /\ pc = "select" /\ ~rootDone
    /\ Monitored(ev.pf)
    /\ \E t \in tasks : t.pf = ev.pf /\ t.st = "select" /\ ~t.cancelled
    /\ queue # <<>>

====
